---- MODULE Spec2Model ----
(***************************************************************************)
(* Model of mina_windows_loop.py: the voice turn loop (main), the text     *)
(* cleanup helpers (clean_text, strip_emoji) and the reply handling.       *)
(*                                                                         *)
(* A Python str is modelled as a sequence of Unicode code points, so that  *)
(* the character classes the code tests (whitespace, ASCII, the            *)
(* supplementary planes, [a-zA-Z0-9]) are computed as the code does.       *)
(***************************************************************************)
EXTENDS Integers, Sequences, FiniteSets, TLC

\* ------------------------------------------------------------------------
\* Bounds of the model
\* ------------------------------------------------------------------------
\* number of pieces concatenated to build an input of clean_text
MaxPieces == 4

\* ------------------------------------------------------------------------
\* Python str primitives
\* ------------------------------------------------------------------------
\* str.isspace() of one character; the same class as \s in a str pattern
IsSpace(c) ==
    \/ c \in 9..13
    \/ c \in 28..32
    \/ c \in {133, 160, 5760, 8232, 8233, 8239, 8287, 12288}
    \/ c \in 8192..8202

\* case folding of re.I for the ASCII letters
Lower(c) == IF c \in 65..90 THEN c + 32 ELSE c

\* str.strip(): drop leading and trailing whitespace
RECURSIVE LStrip(_)
LStrip(s) == IF s # << >> /\ IsSpace(Head(s)) THEN LStrip(Tail(s)) ELSE s

RECURSIVE RStrip(_)
RStrip(s) ==
    IF s # << >> /\ IsSpace(s[Len(s)]) THEN RStrip(SubSeq(s, 1, Len(s) - 1)) ELSE s

strip(s) == RStrip(LStrip(s))

\* len(str.split()): the number of maximal runs of non-whitespace characters
SplitCount(s) ==
    Cardinality({i \in 1..Len(s) :
        /\ ~IsSpace(s[i])
        /\ (i = 1 \/ IsSpace(s[i - 1]))})

\* re.search(r"[a-zA-Z0-9]", s) is not None
HasAsciiAlnum(s) ==
    \E i \in 1..Len(s) : s[i] \in (48..57) \cup (65..90) \cup (97..122)

\* ------------------------------------------------------------------------
\* clean_text
\* ------------------------------------------------------------------------
\* the literal "reply_to" of the tag pattern
ReplyToWord == <<114, 101, 112, 108, 121, 95, 116, 111>>

\* first index >= i of s whose character is not whitespace (Len(s)+1 if none)
RECURSIVE SkipSpace(_, _)
SkipSpace(s, i) ==
    IF i <= Len(s) /\ IsSpace(s[i]) THEN SkipSpace(s, i + 1) ELSE i

\* first index >= i of s whose character is "]" (Len(s)+1 if none)
RECURSIVE FindClose(_, _)
FindClose(s, i) ==
    IF i <= Len(s) /\ s[i] # 93 THEN FindClose(s, i + 1) ELSE i

\* \[\[\s*reply_to[^\]]*\]\] with re.I, anchored at index i: the index of the
\* last character of the match, or 0 when the pattern does not match at i
TagEnd(s, i) ==
    IF i + 1 <= Len(s) /\ s[i] = 91 /\ s[i + 1] = 91
    THEN LET j == SkipSpace(s, i + 2)
             k == FindClose(s, j + Len(ReplyToWord))
         IN  IF /\ j + Len(ReplyToWord) - 1 <= Len(s)
                /\ \A n \in 1..Len(ReplyToWord) :
                       Lower(s[j + n - 1]) = ReplyToWord[n]
                /\ k + 1 <= Len(s)
                /\ s[k + 1] = 93
             THEN k + 1
             ELSE 0
    ELSE 0

\* re.sub(r"\[\[\s*reply_to[^\]]*\]\]", "", text, flags=re.I): leftmost,
\* non-overlapping matches are removed in one left-to-right scan
RECURSIVE RemoveTagsFrom(_, _)
RemoveTagsFrom(s, i) ==
    IF i > Len(s) THEN << >>
    ELSE IF TagEnd(s, i) > 0 THEN RemoveTagsFrom(s, TagEnd(s, i) + 1)
    ELSE << s[i] >> \o RemoveTagsFrom(s, i + 1)

RemoveTags(s) == RemoveTagsFrom(s, 1)

\* the class [`*_#>~]
IsMarkdown(c) == c \in {96, 42, 95, 35, 62, 126}

NotMarkdown(c) == ~IsMarkdown(c)

\* re.sub(r"[`*_#>~]", "", t)
StripMarkdown(s) == SelectSeq(s, NotMarkdown)

\* t.replace("\n", " ").replace(em dash, ", ").replace(en dash, ", ")
RECURSIVE ReplaceBreaks(_)
ReplaceBreaks(s) ==
    IF s = << >> THEN << >>
    ELSE (CASE Head(s) = 10 -> << 32 >>
            [] Head(s) \in {8212, 8211} -> << 44, 32 >>
            [] OTHER -> << Head(s) >>) \o ReplaceBreaks(Tail(s))

\* re.sub(r"\s+", " ", t): every maximal whitespace run becomes one space
RECURSIVE CollapseSpace(_)
CollapseSpace(s) ==
    IF s = << >> THEN << >>
    ELSE IF IsSpace(Head(s))
         THEN << 32 >> \o CollapseSpace(LStrip(s))
         ELSE << Head(s) >> \o CollapseSpace(Tail(s))

\* a faulty variant: whitespace is collapsed before the dashes are replaced
clean_text_reordered(text) ==
    strip(ReplaceBreaks(CollapseSpace(StripMarkdown(RemoveTags(text)))))

clean_text(text) ==
    strip(CollapseSpace(ReplaceBreaks(StripMarkdown(RemoveTags(text)))))

\* ------------------------------------------------------------------------
\* strip_emoji and the ASCII coercion
\* ------------------------------------------------------------------------
InBMP(c) == c < 65536

\* re.sub(r"[\U00010000-\U0010ffff]", "", text)
strip_emoji(text) == SelectSeq(text, InBMP)

IsAscii(c) == c < 128

\* a faulty variant: a character that is not ASCII becomes "?"
ascii_replace(text) == [i \in 1..Len(text) |-> IF IsAscii(text[i]) THEN text[i] ELSE 63]

\* reply.encode("ascii", "ignore").decode("ascii")
ascii_ignore(text) == SelectSeq(text, IsAscii)

\* ------------------------------------------------------------------------
\* JSON documents: the values json.loads returns
\* ------------------------------------------------------------------------
JNull == [t |-> "null"]
JBool(b) == [t |-> "bool", b |-> b]
JNum(n) == [t |-> "num", n |-> n]
JStr(s) == [t |-> "str", s |-> s]
JList(l) == [t |-> "list", l |-> l]
\* m is a function from keys (strings) to values
JObj(m) == [t |-> "obj", m |-> m]

\* the lexemes of the text on stdout
TScalar(v) == [k |-> "scalar", v |-> v]
TLBrace == [k |-> "lbrace"]
TRBrace == [k |-> "rbrace"]
TLBrack == [k |-> "lbrack"]
TRBrack == [k |-> "rbrack"]
TColon == [k |-> "colon"]
TComma == [k |-> "comma"]
\* a run of whitespace, such as the newline that ends the output
TWs == [k |-> "ws"]
\* text that is no JSON lexeme, such as the words of an error message
TBad == [k |-> "bad"]

ParseFail == [ok |-> FALSE, v |-> JNull, n |-> 0]
ParseOk(v, n) == [ok |-> TRUE, v |-> v, n |-> n]

RECURSIVE SkipWs(_, _)
SkipWs(ts, i) == IF i <= Len(ts) /\ ts[i].k = "ws" THEN SkipWs(ts, i + 1) ELSE i

\* the JSON grammar over the lexemes ts, from index i: the value and the index
\* after it
RECURSIVE ParseValue(_, _)
RECURSIVE ParseElems(_, _, _)
RECURSIVE ParseMembers(_, _, _)
ParseValue(ts, i0) ==
    LET i == SkipWs(ts, i0) IN
    IF i > Len(ts) THEN ParseFail
    ELSE CASE ts[i].k = "scalar" -> ParseOk(ts[i].v, i + 1)
           [] ts[i].k = "lbrack" ->
                LET j == SkipWs(ts, i + 1) IN
                IF j <= Len(ts) /\ ts[j].k = "rbrack"
                THEN ParseOk(JList(<< >>), j + 1)
                ELSE ParseElems(ts, j, << >>)
           [] ts[i].k = "lbrace" ->
                LET j == SkipWs(ts, i + 1) IN
                IF j <= Len(ts) /\ ts[j].k = "rbrace"
                THEN ParseOk(JObj(<< >>), j + 1)
                ELSE ParseMembers(ts, j, << >>)
           [] OTHER -> ParseFail

ParseElems(ts, i, acc) ==
    LET r == ParseValue(ts, i) IN
    IF ~r.ok THEN ParseFail
    ELSE LET j == SkipWs(ts, r.n) IN
         IF j > Len(ts) THEN ParseFail
         ELSE CASE ts[j].k = "comma" -> ParseElems(ts, j + 1, Append(acc, r.v))
                [] ts[j].k = "rbrack" -> ParseOk(JList(Append(acc, r.v)), j + 1)
                [] OTHER -> ParseFail

ParseMembers(ts, i0, acc) ==
    LET i == SkipWs(ts, i0) IN
    IF i > Len(ts) \/ ts[i].k # "scalar" THEN ParseFail
    ELSE IF ts[i].v.t # "str" THEN ParseFail
    ELSE LET c == SkipWs(ts, i + 1) IN
         IF c > Len(ts) \/ ts[c].k # "colon" THEN ParseFail
         ELSE LET r == ParseValue(ts, c + 1) IN
              IF ~r.ok THEN ParseFail
              ELSE LET j == SkipWs(ts, r.n)
                       \* a repeated key keeps its last value
                       m == (ts[i].v.s :> r.v) @@ acc
                   IN  IF j > Len(ts) THEN ParseFail
                       ELSE CASE ts[j].k = "comma" -> ParseMembers(ts, j + 1, m)
                              [] ts[j].k = "rbrace" -> ParseOk(JObj(m), j + 1)
                              [] OTHER -> ParseFail

\* json.loads(stdout): ok is FALSE where json.loads raises (no value, a
\* malformed value, or data after the value)
json_loads(ts) ==
    LET r == ParseValue(ts, 1) IN
    IF r.ok /\ SkipWs(ts, r.n) = Len(ts) + 1
    THEN [ok |-> TRUE, v |-> r.v]
    ELSE [ok |-> FALSE, v |-> JNull]

\* ------------------------------------------------------------------------
\* Python operations on the parsed document
\* ------------------------------------------------------------------------
\* bool(v)
Truthy(v) ==
    CASE v.t = "null" -> FALSE
      [] v.t = "bool" -> v.b
      [] v.t = "num" -> v.n # 0
      [] v.t = "str" -> v.s # << >>
      [] v.t = "list" -> v.l # << >>
      [] v.t = "obj" -> DOMAIN v.m # {}

\* d.get(key) of a dict d: None when the key is absent
Get(d, key) == IF key \in DOMAIN d.m THEN d.m[key] ELSE JNull

\* x or y
Or(x, y) == IF Truthy(x) THEN x ELSE y

KeyResult == <<114, 101, 115, 117, 108, 116>>
KeyPayloads == <<112, 97, 121, 108, 111, 97, 100, 115>>
KeyText == <<116, 101, 120, 116>>

\* some enumeration of a finite set
SetToSeq(S) ==
    CHOOSE f \in [1..Cardinality(S) -> S] : \A i, j \in 1..Cardinality(S) :
        i # j => f[i] # f[j]

\* what `for p in v` iterates over: the elements of a list, the characters of
\* a str, the keys of a dict
Items(v) ==
    CASE v.t = "list" -> v.l
      [] v.t = "str" -> [i \in 1..Len(v.s) |-> JStr(<< v.s[i] >>)]
      [] v.t = "obj" -> [i \in 1..Cardinality(DOMAIN v.m) |->
                            JStr(SetToSeq(DOMAIN v.m)[i])]

NoExc == "none"
Selected(r) == [exc |-> NoExc, reply |-> r]
Raised(cls) == [exc |-> cls, reply |-> << >>]

\* a faulty variant: the text of a payload is not trimmed
RECURSIVE ScanPayloadsUntrimmed(_, _)
ScanPayloadsUntrimmed(items, i) ==
    IF i > Len(items) THEN Selected(<< >>)
    ELSE IF items[i].t # "obj" THEN Raised("AttributeError")
    ELSE LET tx == Or(Get(items[i], KeyText), JStr(<< >>)) IN
         IF tx.t # "str" THEN Raised("AttributeError")
         ELSE IF tx.s # << >> THEN Selected(tx.s)
         ELSE ScanPayloadsUntrimmed(items, i + 1)

\* next(((p.get("text") or "").strip() for p in payloads
\*       if (p.get("text") or "").strip()), ""), from item i on
RECURSIVE ScanPayloads(_, _)
ScanPayloads(items, i) ==
    IF i > Len(items) THEN Selected(<< >>)
    ELSE IF items[i].t # "obj" THEN Raised("AttributeError")
    ELSE LET tx == Or(Get(items[i], KeyText), JStr(<< >>)) IN
         IF tx.t # "str" THEN Raised("AttributeError")
         ELSE IF strip(tx.s) # << >> THEN Selected(strip(tx.s))
         ELSE ScanPayloads(items, i + 1)

\* "I heard you, but I don't have a reply yet."
FALLBACK ==
    <<73, 32, 104, 101, 97, 114, 100, 32, 121, 111, 117, 44, 32, 98, 117, 116,
      32, 73, 32, 100, 111, 110, 39, 116, 32, 104, 97, 118, 101, 32, 97, 32,
      114, 101, 112, 108, 121, 32, 121, 101, 116, 46>>

\* a faulty variant: a document of an unexpected shape selects the fallback
SelectReplyLenient(data) ==
    IF data.t # "obj" THEN Selected(FALLBACK)
    ELSE LET result == Or(Get(data, KeyResult), JObj(<< >>)) IN
         IF result.t # "obj" THEN Selected(FALLBACK)
         ELSE LET payloads == Or(Get(result, KeyPayloads), JList(<< >>)) IN
              IF payloads.t # "list" THEN Selected(FALLBACK)
              ELSE LET r == ScanPayloads(
                                SelectSeq(payloads.l, LAMBDA p : p.t = "obj"), 1)
                   IN  IF r.exc # NoExc \/ r.reply = << >>
                       THEN Selected(FALLBACK) ELSE r

\* payloads = ((data.get("result") or {}).get("payloads") or []); the reply
\* is the first non-empty trimmed text, or the fallback; exc is the class of
\* the exception these lines raise on a document of another shape
SelectReply(data) ==
    IF data.t # "obj" THEN Raised("AttributeError")
    ELSE LET result == Or(Get(data, KeyResult), JObj(<< >>)) IN
         IF result.t # "obj" THEN Raised("AttributeError")
         ELSE LET payloads == Or(Get(result, KeyPayloads), JList(<< >>)) IN
              IF payloads.t \in {"num", "bool"} THEN Raised("TypeError")
              ELSE LET r == ScanPayloads(Items(payloads), 1) IN
                   IF r.exc # NoExc THEN r
                   ELSE IF r.reply = << >> THEN Selected(FALLBACK)
                   ELSE r

\* ------------------------------------------------------------------------
\* State
\* ------------------------------------------------------------------------
VARIABLES
    pc,          \* position of main: the stage about to run
    text,        \* the transcript of the turn (line 148)
    bridgeArgs,  \* the arguments of ask_mina_via_wsl in the turn (line 165)
    proc,        \* the completed bridge process: returncode and stdout
    data,        \* json.loads(proc.stdout) (line 179)
    selected,    \* reply as selected from the payloads (lines 187-192)
    reply,       \* reply after the cleanup (lines 195-196)
    spoken,      \* the text handed to edge-tts (line 200)
    tts,         \* the exit status of edge-tts, -1 before it has run
    player,      \* the player play_audio_windows started, "none" before
    trace,       \* the stages entered in the turn, in order
    diag,        \* the last line printed
    exc,         \* the class of the exception the turn ended with
    x,           \* an input of clean_text
    once,        \* clean_text(x)
    twice,       \* clean_text(clean_text(x))
    tpc          \* how often clean_text has been applied to x

pvars == <<pc, text, bridgeArgs, proc, data, selected, reply, spoken, tts,
           player, trace, diag, exc>>
tvars == <<x, once, twice, tpc>>
vars == <<pvars, tvars>>

\* ------------------------------------------------------------------------
\* Configuration (lines 24-28) and the values of a turn before they are set
\* ------------------------------------------------------------------------
\* "voice-loop"
SESSION_ID == <<118, 111, 105, 99, 101, 45, 108, 111, 111, 112>>

\* spoken = reply[:500]
SPOKEN_LIMIT == 500

NoArgs == [message |-> << >>, session_id |-> << >>]
NoProc == [returncode |-> -1, stdout |-> << >>]

\* ------------------------------------------------------------------------
\* What the collaborators can hand to the loop
\* ------------------------------------------------------------------------
\* the segment texts of one transcription
SegmentLists ==
    { << >>,                                                  \* silence
      << <<32>> >>,                                           \* " "
      << <<63, 63, 63>> >>,                                   \* "???"
      << <<32, 111, 107>> >>,                                 \* " ok"
      << <<32, 116, 117, 114, 110, 32, 111, 110>>,
         <<32, 108, 105, 103, 104, 116, 115>> >>,             \* " turn on", " lights"
      << <<32, 116, 117, 114, 110, 32, 42, 111, 110, 42>>, <<32>>,
         <<32, 108, 105, 103, 104, 116, 115>> >>,             \* " turn *on*", " ", " lights"
      << <<233>>, <<32, 232>> >>,                             \* e-acute, " " e-grave
      << <<32, 49, 50>>, <<32, 51>> >>,                       \* " 12", " 3"
      << <<63>>, <<33>> >> }                                  \* "?", "!"

Obj1(k, v) == JObj(k :> v)
Entry(s) == Obj1(KeyText, JStr(s))

\* the payload lists of the agent's answers
PayloadLists ==
    { << >>,
      \* [{text:""}, {text:"  "}, {text:"hello"}, {text:"world"}]
      << Entry(<< >>), Entry(<<32, 32>>), Entry(<<104, 101, 108, 108, 111>>),
         Entry(<<119, 111, 114, 108, 100>>) >>,
      \* [{text:"cafe-acute HOT-BEVERAGE test"}]
      << Entry(<<99, 97, 102, 233, 32, 9749, 32, 116, 101, 115, 116>>) >>,
      \* [{text:" hi GRINNING-FACE "}]
      << Entry(<<32, 104, 105, 32, 128512, 32>>) >>,
      \* [{text:"[[reply_to:1]] **hello**--world\n"}] with an em dash
      << Entry(<<91, 91, 114, 101, 112, 108, 121, 95, 116, 111, 58, 49, 93, 93,
                 32, 42, 42, 104, 101, 108, 108, 111, 42, 42, 8212, 119, 111,
                 114, 108, 100, 10>>) >>,
      << Entry(<< >>) >>,
      << Entry(<<32, 32>>), Entry(<<10>>) >>,
      \* [{}, {text:null}, {text:0}]
      << JObj(<< >>), Obj1(KeyText, JNull), Obj1(KeyText, JNum(0)) >>,
      \* [{text:5}]
      << Obj1(KeyText, JNum(5)) >>,
      \* [5]
      << JNum(5) >>,
      \* [{text:"hello"}, 5]
      << Entry(<<104, 101, 108, 108, 111>>), JNum(5) >>,
      \* [5, {text:"hello"}]
      << JNum(5), Entry(<<104, 101, 108, 108, 111>>) >>,
      \* [{text:"  "}, "x"]
      << Entry(<<32, 32>>), JStr(<<120>>) >> }

\* the documents the agent can print
Docs ==
    { Obj1(KeyResult, Obj1(KeyPayloads, JList(l))) : l \in PayloadLists }
    \cup
    { JObj(<< >>),                                   \* {}
      Obj1(KeyResult, JObj(<< >>)),                  \* {result:{}}
      Obj1(KeyResult, JNull),                        \* {result:null}
      Obj1(KeyResult, JNum(0)),                      \* {result:0}
      Obj1(KeyResult, JNum(5)),                      \* {result:5}
      Obj1(KeyResult, JStr(<<120>>)),                \* {result:"x"}
      Obj1(KeyResult, JList(<< JNum(5) >>)),         \* {result:[5]}
      Obj1(KeyResult, Obj1(KeyPayloads, JNull)),
      Obj1(KeyResult, Obj1(KeyPayloads, JNum(0))),
      Obj1(KeyResult, Obj1(KeyPayloads, JNum(5))),
      Obj1(KeyResult, Obj1(KeyPayloads, JBool(TRUE))),
      Obj1(KeyResult, Obj1(KeyPayloads, JStr(<<120>>))),
      Obj1(KeyResult, Obj1(KeyPayloads, Obj1(<<97>>, JNum(1)))),
      JList(<< >>), JList(<< JNum(5) >>), JNum(5), JStr(<<120>>), JNull }

\* the lexemes of a document as the agent prints it
RECURSIVE Ser(_)
RECURSIVE SerElems(_)
RECURSIVE SerMembers(_, _)
Ser(v) ==
    CASE v.t = "list" -> << TLBrack >> \o SerElems(v.l) \o << TRBrack >>
      [] v.t = "obj" ->
            << TLBrace >> \o SerMembers(v.m, SetToSeq(DOMAIN v.m)) \o << TRBrace >>
      [] OTHER -> << TScalar(v) >>

SerElems(l) ==
    IF l = << >> THEN << >>
    ELSE Ser(Head(l)) \o (IF Tail(l) = << >> THEN << >> ELSE << TComma >>)
         \o SerElems(Tail(l))

SerMembers(m, ks) ==
    IF ks = << >> THEN << >>
    ELSE << TScalar(JStr(Head(ks))), TColon >> \o Ser(m[Head(ks)])
         \o (IF Tail(ks) = << >> THEN << >> ELSE << TComma >>)
         \o SerMembers(m, Tail(ks))

\* {result:{payloads:[{text:"hello"}]}}
HelloDoc ==
    Obj1(KeyResult, Obj1(KeyPayloads,
        JList(<< Entry(<<104, 101, 108, 108, 111>>) >>)))

\* what the bridge process can leave on stdout: a document and a newline,
\* nothing, a bare newline, text that is not JSON, a document cut short, a
\* document followed by more text
Stdouts ==
    { Ser(d) \o << TWs >> : d \in Docs }
    \cup { << >>, << TWs >>, << TBad, TWs >>, Ser(HelloDoc) \o << TBad >> }
    \cup { SubSeq(Ser(HelloDoc), 1, n) : n \in 1..(Len(Ser(HelloDoc)) - 1) }

\* the exception classes a call into a collaborator can raise: an error of the
\* collaborator, an end-of-file error of the collaborator, the interrupt signal
StageFailures == {"OSError", "EOFError", "KeyboardInterrupt"}

\* ------------------------------------------------------------------------
\* transcribe_audio
\* ------------------------------------------------------------------------
RECURSIVE Join(_)
Join(parts) ==
    IF parts = << >> THEN << >>
    ELSE IF Tail(parts) = << >> THEN Head(parts)
    ELSE Head(parts) \o << 32 >> \o Join(Tail(parts))

\* " ".join(s.text.strip() for s in segments if s.text and s.text.strip())
\* .strip(), then clean_text
transcribe_audio(segments) ==
    LET kept == SelectSeq(segments, LAMBDA s : s # << >> /\ strip(s) # << >>)
    IN  clean_text(strip(Join([i \in 1..Len(kept) |-> strip(kept[i])])))

\* ------------------------------------------------------------------------
\* main: the handlers of the try statement (lines 207-215)
\* ------------------------------------------------------------------------
MsgEof == "Input stream closed. Exiting."
MsgBye == "Bye."
MsgUnexpected == "Unexpected error"

\* a faulty variant: the interrupt is handled like any other exception
CatchAll(cls) ==
    /\ exc' = cls
    /\ IF cls = "EOFError"
       THEN pc' = "Shutdown" /\ diag' = MsgEof
       ELSE pc' = "AwaitUserCue" /\ diag' = MsgUnexpected

\* an exception of class cls raised anywhere in the try body
Catch(cls) ==
    /\ exc' = cls
    /\ IF cls = "EOFError"
       THEN pc' = "Shutdown" /\ diag' = MsgEof
       ELSE IF cls = "KeyboardInterrupt"
       THEN pc' = "Shutdown" /\ diag' = MsgBye
       ELSE pc' = "AwaitUserCue" /\ diag' = MsgUnexpected

\* ------------------------------------------------------------------------
\* main: the checks of the turn
\* ------------------------------------------------------------------------
MsgNothing == "Didn't catch that."
MsgNoise == "Heard only noise/punctuation, skipping."
MsgShort == "Too short, skipping"
MsgYou == "You:"

\* a faulty variant: one word is enough
GateDiagOneWord(t) ==
    IF t = << >> THEN MsgNothing
    ELSE IF ~HasAsciiAlnum(t) THEN MsgNoise
    ELSE IF SplitCount(t) < 1 THEN MsgShort
    ELSE MsgYou

\* lines 151-161: the line the quality gate prints; MsgYou when it lets the
\* transcript through
GateDiag(t) ==
    IF t = << >> THEN MsgNothing
    ELSE IF ~HasAsciiAlnum(t) THEN MsgNoise
    ELSE IF SplitCount(t) < 2 THEN MsgShort
    ELSE MsgYou

MsgBridgeFailed == "WSL/OpenClaw failed:"
MsgNoStdout == "No stdout from WSL OpenClaw call."
MsgNoJson == "Could not parse JSON from WSL."
MsgParsed == "parsed"

\* a faulty variant: the exit status is not looked at
BridgeDiagNoStatus(p) ==
    IF p.stdout = << >> THEN MsgNoStdout
    ELSE IF ~json_loads(p.stdout).ok THEN MsgNoJson
    ELSE MsgParsed

\* lines 167-184: the first line printed for a bridge result; MsgParsed (no
\* line) when the result passes the three checks
BridgeDiag(p) ==
    IF p.returncode # 0 THEN MsgBridgeFailed
    ELSE IF p.stdout = << >> THEN MsgNoStdout
    ELSE IF ~json_loads(p.stdout).ok THEN MsgNoJson
    ELSE MsgParsed

\* a faulty variant: the two arguments are passed in the wrong order
BridgeCallArgsSwapped(t) == [message |-> SESSION_ID, session_id |-> t]

\* line 165: ask_mina_via_wsl(text, SESSION_ID)
BridgeCallArgs(t) == [message |-> t, session_id |-> SESSION_ID]

\* lines 195-196
Normalize(r) == ascii_ignore(strip_emoji(clean_text(r)))

\* reply[:500]
Truncate(r) == SubSeq(r, 1, IF Len(r) < SPOKEN_LIMIT THEN Len(r) ELSE SPOKEN_LIMIT)

\* ------------------------------------------------------------------------
\* main: the turn loop (lines 130-215), one action per stage
\* ------------------------------------------------------------------------
Init ==
    /\ pc = "AwaitUserCue"
    /\ text = << >>
    /\ bridgeArgs = NoArgs
    /\ proc = NoProc
    /\ data = JNull
    /\ selected = << >>
    /\ reply = << >>
    /\ spoken = << >>
    /\ tts = -1
    /\ player = "none"
    /\ trace = << >>
    /\ diag = "Ready."
    /\ exc = NoExc
    /\ x = << >>
    /\ once = << >>
    /\ twice = << >>
    /\ tpc = "off"

\* line 132: input() returns, or the input stream has ended, or the interrupt
\* arrives. The values of the previous turn are dead from here on: every one
\* is assigned before it is read
AwaitUserCue ==
    /\ pc = "AwaitUserCue"
    /\ text' = << >>
    /\ bridgeArgs' = NoArgs
    /\ proc' = NoProc
    /\ data' = JNull
    /\ selected' = << >>
    /\ reply' = << >>
    /\ spoken' = << >>
    /\ tts' = -1
    /\ player' = "none"
    /\ trace' = << >>
    /\ \E outcome \in {NoExc, "EOFError", "KeyboardInterrupt"} :
          IF outcome = NoExc
          THEN pc' = "Capture" /\ diag' = "Recording" /\ exc' = NoExc
          ELSE Catch(outcome)
    /\ UNCHANGED tvars

\* lines 135-144: sd.rec, sd.wait, sf.write
Capture ==
    /\ pc = "Capture"
    /\ trace' = Append(trace, "Capture")
    /\ \E outcome \in {NoExc} \cup StageFailures :
          IF outcome = NoExc
          THEN pc' = "Transcribe" /\ diag' = "Transcribing..." /\ exc' = exc
          ELSE Catch(outcome)
    /\ UNCHANGED <<text, bridgeArgs, proc, data, selected, reply, spoken, tts,
                   player, tvars>>

\* lines 147-148: text = transcribe_audio(model, "mic.wav")
Transcribe ==
    /\ pc = "Transcribe"
    /\ trace' = Append(trace, "Transcribe")
    /\ \/ \E segments \in SegmentLists :
             /\ text' = transcribe_audio(segments)
             /\ pc' = "QualityGate"
             /\ UNCHANGED <<diag, exc>>
       \/ \E cls \in StageFailures : Catch(cls) /\ UNCHANGED text
    /\ UNCHANGED <<bridgeArgs, proc, data, selected, reply, spoken, tts,
                   player, tvars>>

\* lines 151-161: the quality gate
QualityGate ==
    /\ pc = "QualityGate"
    /\ trace' = Append(trace, "QualityGate")
    /\ \/ /\ diag' = GateDiag(text)
          /\ pc' = IF GateDiag(text) = MsgYou THEN "BridgeCall" ELSE "AwaitUserCue"
          /\ exc' = exc
       \/ Catch("KeyboardInterrupt")
    /\ UNCHANGED <<text, bridgeArgs, proc, data, selected, reply, spoken, tts,
                   player, tvars>>

\* lines 164-184: the bridge call, the checks of its result, json.loads
BridgeCall ==
    /\ pc = "BridgeCall"
    /\ trace' = Append(trace, "BridgeCall")
    /\ bridgeArgs' = BridgeCallArgs(text)
    /\ \/ \E rc \in {0, 1}, out \in Stdouts :
             LET p == [returncode |-> rc, stdout |-> out] IN
             /\ proc' = p
             /\ diag' = BridgeDiag(p)
             /\ exc' = exc
             /\ IF BridgeDiag(p) = MsgParsed
                THEN pc' = "ReplyNormalize" /\ data' = json_loads(out).v
                ELSE pc' = "AwaitUserCue" /\ data' = data
       \/ \E cls \in StageFailures : Catch(cls) /\ UNCHANGED <<proc, data>>
    /\ UNCHANGED <<text, selected, reply, spoken, tts, player, tvars>>

\* lines 186-197: the reply is selected and cleaned
ReplyNormalize ==
    /\ pc = "ReplyNormalize"
    /\ trace' = Append(trace, "ReplyNormalize")
    /\ \/ LET r == SelectReply(data) IN
          IF r.exc = NoExc
          THEN /\ selected' = r.reply
               /\ reply' = Normalize(r.reply)
               /\ pc' = "Synthesize"
               /\ diag' = "Mina:"
               /\ exc' = exc
          ELSE Catch(r.exc) /\ UNCHANGED <<selected, reply>>
       \/ Catch("KeyboardInterrupt") /\ UNCHANGED <<selected, reply>>
    /\ UNCHANGED <<text, bridgeArgs, proc, data, spoken, tts, player, tvars>>

\* lines 200-204: edge-tts is run on the first 500 characters; its exit
\* status is not looked at (check=False)
Synthesize ==
    /\ pc = "Synthesize"
    /\ trace' = Append(trace, "Synthesize")
    /\ spoken' = Truncate(reply)
    /\ \/ \E rc \in {0, 1} :
             /\ tts' = rc
             /\ pc' = "Playback"
             /\ UNCHANGED <<diag, exc>>
       \/ \E cls \in StageFailures : Catch(cls) /\ UNCHANGED tts
    /\ UNCHANGED <<text, bridgeArgs, proc, data, selected, reply, player, tvars>>

\* line 205 and play_audio_windows (lines 91-101): ffplay when `where ffplay`
\* succeeds, the default player otherwise
Playback ==
    /\ pc = "Playback"
    /\ trace' = Append(trace, "Playback")
    /\ \/ \E ff \in {0, 1} :
             /\ player' = IF ff = 0 THEN "ffplay" ELSE "powershell"
             /\ pc' = "AwaitUserCue"
             /\ UNCHANGED <<diag, exc>>
       \/ \E cls \in StageFailures : Catch(cls) /\ UNCHANGED player
    /\ UNCHANGED <<text, bridgeArgs, proc, data, selected, reply, spoken, tts,
                   tvars>>

Next ==
    \/ AwaitUserCue
    \/ Capture
    \/ Transcribe
    \/ QualityGate
    \/ BridgeCall
    \/ ReplyNormalize
    \/ Synthesize
    \/ Playback

Spec == Init /\ [][Next]_vars

\* ------------------------------------------------------------------------
\* clean_text applied to its own result
\* ------------------------------------------------------------------------
\* the fragments inputs are built from: "[[", "]]", "[", "]", "reply_to", "*",
\* " ", "\n", an em dash, "a", and the tag "[[ Reply_To: 1]]"
Pieces ==
    { <<91, 91>>, <<93, 93>>, <<91>>, <<93>>,
      <<114, 101, 112, 108, 121, 95, 116, 111>>,
      <<42>>, <<32>>, <<10>>, <<8212>>, <<97>>,
      <<91, 91, 32, 82, 101, 112, 108, 121, 95, 84, 111, 58, 32, 49, 93, 93>> }

\* the concatenations of at most n pieces
RECURSIVE Concats(_)
Concats(n) ==
    IF n = 0 THEN { << >> }
    ELSE LET shorter == Concats(n - 1) IN
         shorter \cup { p \o s : p \in Pieces, s \in shorter }

InitText ==
    /\ pc = "AwaitUserCue"
    /\ text = << >>
    /\ bridgeArgs = NoArgs
    /\ proc = NoProc
    /\ data = JNull
    /\ selected = << >>
    /\ reply = << >>
    /\ spoken = << >>
    /\ tts = -1
    /\ player = "none"
    /\ trace = << >>
    /\ diag = "Ready."
    /\ exc = NoExc
    /\ x \in Concats(MaxPieces)
    /\ once = << >>
    /\ twice = << >>
    /\ tpc = "input"

CleanOnce ==
    /\ tpc = "input"
    /\ once' = clean_text(x)
    /\ tpc' = "once"
    /\ UNCHANGED <<x, twice, pvars>>

CleanTwice ==
    /\ tpc = "once"
    /\ twice' = clean_text(once)
    /\ tpc' = "twice"
    /\ UNCHANGED <<x, once, pvars>>

NextText ==
    \/ CleanOnce
    \/ CleanTwice

SpecText == InitText /\ [][NextText]_vars

\* ------------------------------------------------------------------------
\* Properties
\* ------------------------------------------------------------------------
\* C8: clean_text is idempotent: applying it to its own result changes nothing
C8_CleanTextIdempotent == tpc = "twice" => twice = once

\* "[[*reply_to]]" cleaned twice: stripping the mark leaves "[[replyto]]",
\* which is no tag
C8_Witness ==
    /\ tpc = "twice"
    /\ x = <<91, 91, 42, 114, 101, 112, 108, 121, 95, 116, 111, 93, 93>>
    /\ once = <<91, 91, 114, 101, 112, 108, 121, 116, 111, 93, 93>>

\* ------------------------------------------------------------------------
\* Properties of the turn loop
\* ------------------------------------------------------------------------
\* the stage was entered in the current turn
Ran(stage) == \E i \in 1..Len(trace) : trace[i] = stage

StageOrder ==
    <<"Capture", "Transcribe", "QualityGate", "BridgeCall", "ReplyNormalize",
      "Synthesize", "Playback">>

IsPrefix(s, u) == Len(s) <= Len(u) /\ \A i \in 1..Len(s) : s[i] = u[i]

\* the interrupt arrived while the given stage was in progress
InterruptedIn(stage) ==
    /\ exc = "KeyboardInterrupt"
    /\ trace # << >>
    /\ trace[Len(trace)] = stage

\* the bridge call of the turn returned a result that is a failure
BridgeReturnedFailure ==
    /\ proc # NoProc
    /\ \/ proc.returncode # 0
       \/ proc.stdout = << >>
       \/ ~json_loads(proc.stdout).ok

\* C1: when the bridge call returns a non-zero exit status, empty stdout or
\* stdout that is not JSON, the turn is aborted: its diagnostic is printed,
\* neither synthesis nor playback is entered, and the loop is back at the cue
C1_BridgeFailureAbortsTurn ==
    BridgeReturnedFailure =>
        /\ pc = "AwaitUserCue"
        /\ ~Ran("Synthesize")
        /\ ~Ran("Playback")
        /\ tts = -1
        /\ player = "none"
        /\ diag = (IF proc.returncode # 0 THEN MsgBridgeFailed
                   ELSE IF proc.stdout = << >> THEN MsgNoStdout
                   ELSE MsgNoJson)

\* the bridge exited with status 0 and printed a document cut short
C1_Witness ==
    /\ proc # NoProc
    /\ proc.returncode = 0
    /\ proc.stdout = SubSeq(Ser(HelloDoc), 1, 5)
    /\ pc = "AwaitUserCue"
    /\ diag = MsgNoJson

\* C2: the loop shuts down only on end-of-input at the cue or on the interrupt;
\* a failure raised by a stage never ends it
C2_OnlyEndOfInputOrInterruptShutsDown ==
    pc = "Shutdown" =>
        \/ exc = "KeyboardInterrupt"
        \/ exc = "EOFError" /\ trace = << >>

\* C3: playback is entered only after edge-tts exited with status 0
C3_PlaybackOnlyAfterSynthesisSuccess == Ran("Playback") => tts = 0

\* C4 as claimed: the interrupt ends the process only from the cue, never
\* while a stage of the turn is in progress
C4_InterruptOnlyAtLoopBoundary ==
    [][(exc' = "KeyboardInterrupt" /\ pc' = "Shutdown") => pc = "AwaitUserCue"]_vars

\* C4: the interrupt is handled by the one handler around the whole turn: at
\* the cue or in any stage it cuts the turn short (the stage in progress is
\* the last one entered, nothing runs after the shutdown) and the shutdown
\* message is printed
C4_InterruptCutsTurnShort ==
    [][/\ pc # "Shutdown"
       /\ exc' = "KeyboardInterrupt" =>
             /\ pc' = "Shutdown"
             /\ diag' = MsgBye
             /\ trace' = (IF pc = "AwaitUserCue" THEN << >> ELSE Append(trace, pc))]_vars

\* the interrupt arrived during the bridge call
C4_Witness ==
    /\ pc = "Shutdown"
    /\ exc = "KeyboardInterrupt"
    /\ diag = MsgBye
    /\ trace = <<"Capture", "Transcribe", "QualityGate", "BridgeCall">>

\* the quality gate ran to its verdict
GateDecided == Ran("QualityGate") /\ ~InterruptedIn("QualityGate")

GateRejected == GateDecided /\ diag \in {MsgNothing, MsgNoise, MsgShort}

\* str.isalnum() of one character, for the code points below 256
IsAlnum(c) ==
    \/ c \in (48..57) \cup (65..90) \cup (97..122)
    \/ c \in {170, 178, 179, 181, 185, 186, 188, 189, 190}
    \/ c \in (192..214) \cup (216..246) \cup (248..255)

\* C5 as claimed: the gate rejects exactly the transcripts that are empty,
\* hold no alphanumeric character or have fewer than 2 words; a rejected
\* transcript ends the turn without a bridge call
C5_GateRejectsNoAlphanumeric ==
    GateDecided =>
        /\ GateRejected <=>
              \/ text = << >>
              \/ ~\E i \in 1..Len(text) : IsAlnum(text[i])
              \/ SplitCount(text) < 2
        /\ GateRejected => pc = "AwaitUserCue" /\ ~Ran("BridgeCall")

\* C5: the gate rejects exactly the transcripts that are empty, hold no ASCII
\* letter or digit or have fewer than 2 words; a rejected transcript ends the
\* turn without a bridge call
C5_GateRejectsNoAsciiAlphanumeric ==
    GateDecided =>
        /\ GateRejected <=>
              \/ text = << >>
              \/ ~\E i \in 1..Len(text) :
                     text[i] \in (48..57) \cup (65..90) \cup (97..122)
              \/ SplitCount(text) < 2
        /\ GateRejected =>
              /\ pc = "AwaitUserCue"
              /\ ~Ran("BridgeCall")
              /\ bridgeArgs = NoArgs

\* two words of letters that are not ASCII are rejected as noise
C5_Witness ==
    /\ GateRejected
    /\ text = <<233, 32, 232>>
    /\ diag = MsgNoise
    /\ pc = "AwaitUserCue"

\* the reply of the turn was selected and cleaned
ReplySelected ==
    /\ Ran("ReplyNormalize")
    /\ pc \in {"Synthesize", "Playback"} \/ Ran("Synthesize")

\* the document has the shape of the bridge protocol: an object whose result,
\* if any, is an object whose payloads, if any, is a list of objects whose
\* text, if any, is a string
IsOptional(d, key, ok(_)) ==
    key \in DOMAIN d.m => d.m[key].t = "null" \/ ok(d.m[key])

IsEntry(p) == p.t = "obj" /\ IsOptional(p, KeyText, LAMBDA v : v.t = "str")

IsPayloadList(v) == v.t = "list" /\ \A i \in 1..Len(v.l) : IsEntry(v.l[i])

IsResult(v) == v.t = "obj" /\ IsOptional(v, KeyPayloads, IsPayloadList)

WellShaped(d) == d.t = "obj" /\ IsOptional(d, KeyResult, IsResult)

\* result.payloads of a well-shaped document, empty when a key is missing
PayloadsOf(d) ==
    IF /\ KeyResult \in DOMAIN d.m
       /\ d.m[KeyResult].t = "obj"
       /\ KeyPayloads \in DOMAIN d.m[KeyResult].m
       /\ d.m[KeyResult].m[KeyPayloads].t = "list"
    THEN d.m[KeyResult].m[KeyPayloads].l
    ELSE << >>

\* the entry is an object whose text is a string that is not blank
HasText(p) ==
    /\ p.t = "obj"
    /\ KeyText \in DOMAIN p.m
    /\ p.m[KeyText].t = "str"
    /\ \E i \in 1..Len(p.m[KeyText].s) : ~IsSpace(p.m[KeyText].s[i])

\* C6: for a document of the protocol's shape the selected reply is the
\* trimmed text of the first payload whose text is not blank, and the fallback
\* string when there is no such payload or a key is missing
C6_ReplySelection ==
    (Ran("ReplyNormalize") /\ WellShaped(data)) =>
        /\ exc \notin {"AttributeError", "TypeError"}
        /\ ReplySelected =>
              LET l == PayloadsOf(data)
                  hits == {i \in 1..Len(l) : HasText(l[i])}
              IN  IF hits = {} THEN selected = FALLBACK
                  ELSE \E i \in hits :
                          /\ \A j \in hits : i <= j
                          /\ selected = strip(l[i].m[KeyText].s)
                          /\ selected # << >>
                          /\ ~IsSpace(selected[1])
                          /\ ~IsSpace(selected[Len(selected)])

\* [{text:""}, {text:"  "}, {text:"hello"}, {text:"world"}] selects "hello"
C6_Witness ==
    /\ ReplySelected
    /\ Len(PayloadsOf(data)) = 4
    /\ selected = <<104, 101, 108, 108, 111>>

\* C7 as claimed: the cleaned reply holds only ASCII characters, as many as the
\* cleaned text had, and "cafe-acute HOT-BEVERAGE test" becomes "caf test"
C7_CafeSingleSpace ==
    ReplySelected =>
        /\ \A i \in 1..Len(reply) : reply[i] < 128
        /\ Len(reply) = Cardinality({i \in 1..Len(clean_text(selected)) :
                                        clean_text(selected)[i] < 128})
        /\ selected = <<99, 97, 102, 233, 32, 9749, 32, 116, 101, 115, 116>> =>
              reply = <<99, 97, 102, 32, 116, 101, 115, 116>>

\* C7: the cleaned reply holds only ASCII characters, as many as the cleaned
\* text had (nothing stands in for a dropped character), and
\* "cafe-acute HOT-BEVERAGE test" becomes "caf  test" with both spaces kept
C7_NonAsciiDropped ==
    ReplySelected =>
        /\ \A i \in 1..Len(reply) : reply[i] < 128
        /\ Len(reply) = Cardinality({i \in 1..Len(clean_text(selected)) :
                                        clean_text(selected)[i] < 128})
        /\ selected = <<99, 97, 102, 233, 32, 9749, 32, 116, 101, 115, 116>> =>
              reply = <<99, 97, 102, 32, 32, 116, 101, 115, 116>>

\* the text handed to edge-tts for that reply
C7_Witness ==
    /\ Ran("Synthesize")
    /\ selected = <<99, 97, 102, 233, 32, 9749, 32, 116, 101, 115, 116>>
    /\ spoken = <<99, 97, 102, 32, 32, 116, 101, 115, 116>>

\* C9: the stages of a turn are entered in the fixed order, none twice; the
\* bridge is called with the transcript and the constant session id;
\* synthesis follows a bridge result that passed the checks and parsed; a
\* capture starts only from the cue, and the cue is reached only from the end
\* of a turn or from a stage that aborted it
C9_StageOrder ==
    /\ [](/\ IsPrefix(trace, StageOrder)
          /\ Ran("BridgeCall") =>
                bridgeArgs = [message |-> text, session_id |-> SESSION_ID]
          /\ Ran("Synthesize") =>
                /\ Ran("BridgeCall")
                /\ proc.returncode = 0
                /\ json_loads(proc.stdout).ok
                /\ data = json_loads(proc.stdout).v)
    /\ [][/\ pc' = "Capture" => pc = "AwaitUserCue" /\ trace' = << >>
          /\ (pc' = "AwaitUserCue" /\ pc # "AwaitUserCue") =>
                trace' = Append(trace, pc)]_vars

\* a turn that went through every stage
C9_Witness == trace = StageOrder /\ pc = "AwaitUserCue" /\ player # "none"

\* a value that is neither empty nor a container
NonEmptyScalar(v) == v.t \in {"num", "str", "bool"} /\ Truthy(v)

\* result and payloads as lines 186 reads them from an object d
ResultOf(d) == Or(Get(d, KeyResult), JObj(<< >>))
PayloadsRead(d) == Or(Get(ResultOf(d), KeyPayloads), JList(<< >>))

\* the shapes the claim names
ShapeClaimed(d) ==
    \/ d.t # "obj"
    \/ d.t = "obj" /\ NonEmptyScalar(ResultOf(d))
    \/ /\ d.t = "obj"
       /\ ResultOf(d).t = "obj"
       /\ \/ NonEmptyScalar(PayloadsRead(d))
          \/ /\ Truthy(PayloadsRead(d))
             /\ ~(/\ PayloadsRead(d).t = "list"
                  /\ \A i \in 1..Len(PayloadsRead(d).l) :
                         PayloadsRead(d).l[i].t = "obj")

\* the shapes on which lines 186-190 raise: as claimed, but in a list an entry
\* that is not an object counts only when no entry before it has text that is
\* not blank
ShapeRaising(d) ==
    \/ d.t # "obj"
    \/ d.t = "obj" /\ NonEmptyScalar(ResultOf(d))
    \/ /\ d.t = "obj"
       /\ ResultOf(d).t = "obj"
       /\ \/ NonEmptyScalar(PayloadsRead(d))
          \/ PayloadsRead(d).t = "obj" /\ Truthy(PayloadsRead(d))
          \/ /\ PayloadsRead(d).t = "list"
             /\ \E i \in 1..Len(PayloadsRead(d).l) :
                   /\ PayloadsRead(d).l[i].t # "obj"
                   /\ \A j \in 1..(i - 1) : ~HasText(PayloadsRead(d).l[j])

\* the turn was ended by the catch-all handler before synthesis
AbortedInSelection ==
    /\ exc \in {"AttributeError", "TypeError"}
    /\ pc = "AwaitUserCue"
    /\ diag = MsgUnexpected
    /\ selected = << >>
    /\ ~Ran("Synthesize")
    /\ ~Ran("Playback")

\* C10 as claimed: every parsed document of a shape the claim names ends the
\* turn in the catch-all handler
C10_UnexpectedShapeAlwaysRaises ==
    (Ran("ReplyNormalize") /\ ~InterruptedIn("ReplyNormalize")
        /\ ShapeClaimed(data)) => AbortedInSelection

\* C10: a parsed document ends the turn in the catch-all handler, with no
\* MalformedResponse diagnostic, no fallback reply, no synthesis and no
\* playback, when its top-level value is no object, result or payloads is a
\* non-empty value that is no container, payloads is a non-empty object, or
\* payloads is a list with an entry that is no object and no entry before it
\* with text that is not blank
C10_UnexpectedShapeRaises ==
    (Ran("ReplyNormalize") /\ ~InterruptedIn("ReplyNormalize")
        /\ ShapeRaising(data)) => AbortedInSelection

\* [{text:"  "}, "x"]: the blank text is skipped, the string entry raises
C10_Witness ==
    /\ AbortedInSelection
    /\ exc = "AttributeError"
    /\ data.t = "obj"
    /\ ResultOf(data).t = "obj"
    /\ PayloadsRead(data) =
          JList(<< Entry(<<32, 32>>), JStr(<<120>>) >>)

====
